---------------------------- MODULE Spec2Model ----------------------------
(***************************************************************************)
(* Model of the request authorizer of the CDI API server                   *)
(* (pkg/apiserver/authorizer.go).                                          *)
(*                                                                         *)
(* Text is modelled as a sequence of one-character strings wherever the    *)
(* code looks inside it (header names, HTTP methods).  A URL path is a     *)
(* sequence of symbols, each the separator "/" or an indivisible run of    *)
(* non-separator text, because the code only ever splits a path on "/".    *)
(* A header map and the extras map are functions whose domain is the set   *)
(* of keys present.                                                        *)
(***************************************************************************)
EXTENDS Integers, Sequences, FiniteSets, TLC

\* Longest path, in segments, that the initial states draw.
MaxSegs == 8
\* How many times the watcher replaces the configuration in one behaviour.
MaxReplacements == 2

\* The calls of Authorize that a behaviour holds.
First == "first"
Second == "second"
Calls == {First, Second}

---------------------------------------------------------------------------
(* Text helpers: strings.ToLower, strings.ToUpper, strings.EqualFold,     *)
(* strings.Split, url.PathUnescape, fmt's %+v of a []string.               *)

Lowers == <<"a", "b", "c", "d", "e", "f", "g", "h", "i", "j", "k", "l", "m",
            "n", "o", "p", "q", "r", "s", "t", "u", "v", "w", "x", "y", "z">>
Uppers == <<"A", "B", "C", "D", "E", "F", "G", "H", "I", "J", "K", "L", "M",
            "N", "O", "P", "Q", "R", "S", "T", "U", "V", "W", "X", "Y", "Z">>
Digits == <<"0", "1", "2", "3", "4", "5", "6", "7", "8", "9">>
HexDigits == <<"0", "1", "2", "3", "4", "5", "6", "7", "8", "9",
               "a", "b", "c", "d", "e", "f">>

IndexOf(seq, c) ==
    IF \E i \in 1..Len(seq) : seq[i] = c
    THEN CHOOSE i \in 1..Len(seq) : seq[i] = c
    ELSE 0

LowerOf == [c \in {Uppers[i] : i \in 1..Len(Uppers)} |-> Lowers[IndexOf(Uppers, c)]]
UpperOf == [c \in {Lowers[i] : i \in 1..Len(Lowers)} |-> Uppers[IndexOf(Lowers, c)]]

ToLowerChar(c) == IF c \in DOMAIN LowerOf THEN LowerOf[c] ELSE c
ToUpperChar(c) == IF c \in DOMAIN UpperOf THEN UpperOf[c] ELSE c

ToLower(s) == [i \in 1..Len(s) |-> ToLowerChar(s[i])]
ToUpper(s) == [i \in 1..Len(s) |-> ToUpperChar(s[i])]

EqualFold(s, t) ==
    /\ Len(s) = Len(t)
    /\ \A i \in 1..Len(s) : ToLowerChar(s[i]) = ToLowerChar(t[i])

\* strings.Split(path, "/"): the segments between separators; a path with n
\* separators has n+1 segments, and the empty path has the one segment "".
RECURSIVE SplitFrom(_, _, _)
SplitFrom(path, i, cur) ==
    IF i > Len(path) THEN <<cur>>
    ELSE IF path[i] = "/" THEN <<cur>> \o SplitFrom(path, i + 1, <<>>)
    ELSE SplitFrom(path, i + 1, Append(cur, path[i]))

Split(path) == SplitFrom(path, 1, <<>>)

\* The path whose segments are segs (the inverse of Split, used to draw paths).
RECURSIVE Join(_)
Join(segs) ==
    IF Len(segs) = 0 THEN <<>>
    ELSE IF Len(segs) = 1 THEN Head(segs)
    ELSE Head(segs) \o <<"/">> \o Join(Tail(segs))

ishex(c) == IndexOf(HexDigits, ToLowerChar(c)) > 0
unhex(c) == IndexOf(HexDigits, ToLowerChar(c)) - 1

\* The character a decoded byte stands for; bytes outside the letters, digits
\* and the punctuation the model uses stay distinct opaque characters.
ByteToChar(n) ==
    IF n >= 97 /\ n <= 122 THEN Lowers[n - 96]
    ELSE IF n >= 65 /\ n <= 90 THEN Uppers[n - 64]
    ELSE IF n >= 48 /\ n <= 57 THEN Digits[n - 47]
    ELSE IF n = 37 THEN "%"
    ELSE IF n = 45 THEN "-"
    ELSE IF n = 47 THEN "/"
    ELSE "\\x" \o ToString(n)

\* url.PathUnescape: ok is FALSE (an EscapeError) when a "%" is not followed
\* by two hex digits; otherwise val has every %XX replaced by its byte.
RECURSIVE PathUnescapeFrom(_, _)
PathUnescapeFrom(s, i) ==
    IF i > Len(s) THEN [ok |-> TRUE, val |-> <<>>]
    ELSE IF s[i] = "%"
    THEN IF i + 2 > Len(s) \/ ~ishex(s[i + 1]) \/ ~ishex(s[i + 2])
         THEN [ok |-> FALSE, val |-> <<>>]
         ELSE LET rest == PathUnescapeFrom(s, i + 3)
              IN  [ok |-> rest.ok,
                   val |-> <<ByteToChar(16 * unhex(s[i + 1]) + unhex(s[i + 2]))>>
                           \o rest.val]
    ELSE LET rest == PathUnescapeFrom(s, i + 1)
         IN  [ok |-> rest.ok, val |-> <<s[i]>> \o rest.val]

PathUnescape(s) == PathUnescapeFrom(s, 1)

\* fmt's %+v of a []string: the elements between brackets, separated by spaces.
RECURSIVE SpaceJoin(_)
SpaceJoin(names) ==
    IF Len(names) = 0 THEN <<>>
    ELSE IF Len(names) = 1 THEN Head(names)
    ELSE Head(names) \o <<" ">> \o SpaceJoin(Tail(names))

FormatList(names) == <<"[">> \o SpaceJoin(names) \o <<"]">>

\* A message: the text of its format, and the text of its one argument.
Msg(fmt, arg) == [fmt |-> fmt, arg |-> arg]
EmptyString == Msg("", <<>>)
NilError == "nil"

\* All orders in which a range over a map with key set S can visit its keys.
RECURSIVE Perms(_)
Perms(S) ==
    IF S = {} THEN {<<>>}
    ELSE UNION {{<<x>> \o p : p \in Perms(S \ {x})} : x \in S}

\* m with m[key] set to val.
MapPut(m, key, val) ==
    [k \in (DOMAIN m) \cup {key} |-> IF k = key THEN val ELSE m[k]]

EmptyMap == <<>>

---------------------------------------------------------------------------
(* Constants of the package.                                               *)

userHeader == <<"X", "-", "R", "e", "m", "o", "t", "e", "-", "U", "s", "e", "r">>
groupHeader == <<"X", "-", "R", "e", "m", "o", "t", "e", "-", "G", "r", "o", "u", "p">>
userExtraHeaderPrefix ==
    <<"X", "-", "R", "e", "m", "o", "t", "e", "-", "E", "x", "t", "r", "a", "-">>

\* The API group of the upload token requests (the group of the URL example).
uploadTokenGroup == "upload.cdi.kubevirt.io"
uploadTokenResource == "uploadtokenrequests"
versionMarker == "version"

\* only supporting create for now
verbMapMore ==
    [m \in {<<"P", "O", "S", "T">>, <<"G", "E", "T">>} |->
        IF m = <<"P", "O", "S", "T">> THEN "create" ELSE "get"]

verbMap == [m \in {<<"P", "O", "S", "T">>} |-> "create"]

---------------------------------------------------------------------------
(* The helpers of the authorizer.                                          *)

\* matchHeaders, had it treated "none of the headers present" as no values.
RECURSIVE matchHeadersLenientFrom(_, _, _)
matchHeadersLenientFrom(headers, toMatch, i) ==
    IF i > Len(toMatch) THEN [ok |-> TRUE, value |-> <<>>, err |-> EmptyString]
    ELSE IF toMatch[i] \in DOMAIN headers
    THEN [ok |-> TRUE, value |-> headers[toMatch[i]], err |-> EmptyString]
    ELSE matchHeadersLenientFrom(headers, toMatch, i + 1)

matchHeadersLenient(headers, toMatch) == matchHeadersLenientFrom(headers, toMatch, 1)

\* The values of the first header of toMatch that the request carries.
RECURSIVE matchHeadersFrom(_, _, _)
matchHeadersFrom(headers, toMatch, i) ==
    IF i > Len(toMatch)
    THEN [ok |-> FALSE, value |-> <<>>,
          err |-> Msg("one of these headers required for authorization: %+v",
                      FormatList(toMatch))]
    ELSE IF toMatch[i] \in DOMAIN headers
    THEN [ok |-> TRUE, value |-> headers[toMatch[i]], err |-> EmptyString]
    ELSE matchHeadersFrom(headers, toMatch, i + 1)

matchHeaders(headers, toMatch) == matchHeadersFrom(headers, toMatch, 1)

hasPrefixIgnoreCase(s, prefix) ==
    Len(s) >= Len(prefix) /\ EqualFold(SubSeq(s, 1, Len(prefix)), prefix)

unescapeExtraKey(encodedKey) ==
    LET key == PathUnescape(encodedKey)
    IN  IF ~key.ok THEN encodedKey ELSE key.val

\* The inner loop of getUserExtras for one prefix, visiting the header keys in
\* the given order.
RECURSIVE RangeHeaders(_, _, _, _, _)
RangeHeaders(extras, headers, prefix, order, i) ==
    IF i > Len(order) THEN extras
    ELSE LET k == order[i]
             next == IF hasPrefixIgnoreCase(k, prefix)
                     THEN MapPut(extras,
                                 unescapeExtraKey(ToLower(SubSeq(k, Len(prefix) + 1, Len(k)))),
                                 headers[k])
                     ELSE extras
         IN  RangeHeaders(next, headers, prefix, order, i + 1)

\* getUserExtras: every map the two nested loops can produce.  The order in
\* which a range visits the keys of a map is not specified, so each pass over
\* the headers may take any order.
RECURSIVE getUserExtrasFrom(_, _, _, _)
getUserExtrasFrom(extras, headers, toMatch, i) ==
    IF i > Len(toMatch) THEN {extras}
    ELSE LET pass == {RangeHeaders(extras, headers, toMatch[i], order, 1)
                      : order \in Perms(DOMAIN headers)}
         IN  UNION {getUserExtrasFrom(e, headers, toMatch, i + 1) : e \in pass}

getUserExtras(headers, toMatch) == getUserExtrasFrom(EmptyMap, headers, toMatch, 1)

\* isInfoEndpoint with the segment count compared by < in place of <=.
isInfoEndpointStrict(req) ==
    IF req.URL.nil THEN FALSE
    ELSE LET pathSplit == Split(req.URL.Path)
         IN  Len(pathSplit) < 4 \/ (Len(pathSplit) > 4 /\ pathSplit[5] = <<versionMarker>>)

\* isInfoEndpoint without the guard against a request that has no URL.
isInfoEndpointNoGuard(req) ==
    LET pathSplit == Split(req.URL.Path)
    IN  Len(pathSplit) <= 4 \/ (Len(pathSplit) > 4 /\ pathSplit[5] = <<versionMarker>>)

isInfoEndpoint(req) ==
    IF req.URL.nil THEN FALSE
    ELSE LET pathSplit == Split(req.URL.Path)
         IN  Len(pathSplit) <= 4 \/ (Len(pathSplit) > 4 /\ pathSplit[5] = <<versionMarker>>)

\* isAuthenticated without the check of the verified chains.
isAuthenticatedPeerOnly(req) ==
    ~(req.TLS.nil \/ req.TLS.PeerCertificates = 0)

isAuthenticated(req) ==
    ~(req.TLS.nil \/ req.TLS.PeerCertificates = 0 \/ req.TLS.VerifiedChains = 0)

\* isAllowed passing the reason of the status on in both cases.
isAllowedKeepReason(status) ==
    [allowed |-> status.Allowed, reason |-> status.Reason]

isAllowed(status) ==
    IF status.Allowed
    THEN [allowed |-> TRUE, reason |-> EmptyString]
    ELSE [allowed |-> FALSE, reason |-> status.Reason]

---------------------------------------------------------------------------
(* The return statements of Authorize.                                     *)

Result(allowed, reason, err) == [allowed |-> allowed, reason |-> reason, err |-> err]

ReturnInfoEndpoint == Result(TRUE, EmptyString, NilError)

ReturnNotAuthenticated ==
    Result(FALSE, Msg("request is not authenticated", <<>>), NilError)

\* A failure of generateAccessReview returned as an error of the service.
ReturnReviewErrorAsError(err) == Result(FALSE, EmptyString, err.fmt)

ReturnReviewError(err) == Result(FALSE, err, NilError)

\* A failure of Create returned as a denial with no error.
ReturnCreateErrorAsDenial(e) == Result(FALSE, Msg("internal server error", <<>>), NilError)

ReturnCreateError(e) == Result(FALSE, Msg("internal server error", <<>>), e)

ReturnStatus(status) ==
    Result(isAllowed(status).allowed, isAllowed(status).reason, NilError)

---------------------------------------------------------------------------
(* The requests, configurations and policy services that a behaviour       *)
(* starts from.                                                            *)

\* The text a path may carry in its i-th segment: the segments of the URL
\* example, and next to each one that fails the check made on it.
SegChoices(i) ==
    IF i = 1 THEN {<<>>}
    ELSE IF i = 2 THEN {<<"apis">>}
    ELSE IF i = 3 THEN {<<uploadTokenGroup>>, <<"core.kubevirt.io">>}
    ELSE IF i = 4 THEN {<<"v1beta1">>}
    ELSE IF i = 5 THEN {<<"namespaces">>, <<versionMarker>>}
    ELSE IF i = 6 THEN {<<"default">>}
    ELSE IF i = 7 THEN {<<uploadTokenResource>>, <<"pods">>}
    ELSE {<<"test">>}

RECURSIVE SegSeqs(_)
SegSeqs(n) ==
    IF n = 0 THEN {<<>>}
    ELSE {Append(s, c) : s \in SegSeqs(n - 1), c \in SegChoices(n)}

\* The empty path (one empty segment) and every drawn path of 2..MaxSegs segments.
UrlPaths == {Join(s) : s \in UNION {SegSeqs(n) : n \in 1..MaxSegs}}

Urls == {[nil |-> TRUE, Path |-> <<>>]} \cup {[nil |-> FALSE, Path |-> p] : p \in UrlPaths}

\* req.Request.TLS: absent, or the lengths of PeerCertificates and VerifiedChains.
NoTLS == [nil |-> TRUE, PeerCertificates |-> 0, VerifiedChains |-> 0]
VerifiedTLS == [nil |-> FALSE, PeerCertificates |-> 1, VerifiedChains |-> 1]
TLSStates ==
    {NoTLS,
     [nil |-> FALSE, PeerCertificates |-> 0, VerifiedChains |-> 0],
     [nil |-> FALSE, PeerCertificates |-> 1, VerifiedChains |-> 0],
     VerifiedTLS}

MethodPOST == <<"P", "O", "S", "T">>
Methods == {MethodPOST, <<"p", "o", "s", "t">>, <<"G", "E", "T">>}

altUserHeader == <<"X", "-", "U", "s", "e", "r">>
altGroupHeader == <<"X", "-", "G", "r", "o", "u", "p">>
altExtraHeaderPrefix == <<"X", "-", "E", "x", "t", "r", "a", "-">>

\* Extra headers: "A" and "%61" both derive the key "a"; the lower-case
\* spelling of the prefix matches too; "%zz" cannot be decoded.
extraA == userExtraHeaderPrefix \o <<"A">>
extraEscapedA == userExtraHeaderPrefix \o <<"%", "6", "1">>
extraLowerB == ToLower(userExtraHeaderPrefix) \o <<"B">>
extraMalformed == userExtraHeaderPrefix \o <<"%", "z", "z">>
altExtraA == altExtraHeaderPrefix \o <<"A">>

\* The header map with the given keys and values.
Headers(keys, vals) ==
    [k \in {keys[i] : i \in 1..Len(keys)} |->
        vals[CHOOSE i \in 1..Len(keys) : keys[i] = k]]

HeadersUserGroup == Headers(<<userHeader, groupHeader>>, <<<<"alice">>, <<"g1", "g2">>>>)
HeadersCollide ==
    Headers(<<userHeader, groupHeader, extraA, extraEscapedA>>,
            <<<<"alice">>, <<"g1">>, <<"1">>, <<"2">>>>)
HeadersBoth ==
    Headers(<<userHeader, groupHeader, altUserHeader, altExtraA>>,
            <<<<"alice">>, <<"g1">>, <<"bob">>, <<"3">>>>)

HeaderSets ==
    {EmptyMap,
     Headers(<<userHeader>>, <<<<"alice">>>>),
     Headers(<<groupHeader>>, <<<<"g1">>>>),
     Headers(<<userHeader, groupHeader>>, <<<<>>, <<"g1">>>>),
     HeadersUserGroup,
     Headers(<<userHeader, groupHeader, extraA>>, <<<<"alice">>, <<"g1">>, <<"1">>>>),
     HeadersCollide,
     Headers(<<userHeader, groupHeader, extraLowerB, extraMalformed>>,
             <<<<"alice">>, <<"g1">>, <<"1", "2">>, <<"3">>>>),
     Headers(<<altUserHeader, extraA>>, <<<<"bob">>, <<"1">>>>),
     HeadersBoth}

Requests ==
    {[TLS |-> t, Method |-> m, URL |-> u, Header |-> h] :
        t \in TLSStates, m \in Methods, u \in Urls, h \in HeaderSets}

\* Requests that reach the policy service: the URL example over verified TLS.
ReviewedRequests ==
    {[TLS |-> VerifiedTLS, Method |-> MethodPOST,
      URL |-> [nil |-> FALSE,
               Path |-> Join(<<<<>>, <<"apis">>, <<uploadTokenGroup>>, <<"v1beta1">>,
                               <<"namespaces">>, <<"default">>, <<uploadTokenResource>>>>)],
      Header |-> h] : h \in {HeadersCollide, HeadersBoth}}

\* The values GetAuthConfig returns: the default header names, and a
\* configuration that names other headers first.
DefaultAuthConfig ==
    [UserHeaders |-> <<userHeader>>,
     GroupHeaders |-> <<groupHeader>>,
     ExtraPrefixHeaders |-> <<userExtraHeaderPrefix>>]
AltAuthConfig ==
    [UserHeaders |-> <<altUserHeader, userHeader>>,
     GroupHeaders |-> <<altGroupHeader, groupHeader>>,
     ExtraPrefixHeaders |-> <<altExtraHeaderPrefix, userExtraHeaderPrefix>>]
AuthConfigs == {DefaultAuthConfig, AltAuthConfig}
NoAuthConfig == [UserHeaders |-> <<>>, GroupHeaders |-> <<>>, ExtraPrefixHeaders |-> <<>>]

\* What SubjectAccessReviews().Create answers: a transport fault, or a status
\* that is a function of the review it was sent.
Policies == {"fault", "allowAll", "denyAll", "denySilent", "allowExtraOne"}

TransportFault == "transport fault"

Create(policy, review) ==
    IF policy = "fault"
    THEN [failed |-> TRUE, err |-> TransportFault,
          Status |-> [Allowed |-> FALSE, Reason |-> EmptyString]]
    ELSE [failed |-> FALSE, err |-> NilError,
          Status |->
            IF policy = "allowAll"
            THEN [Allowed |-> TRUE, Reason |-> Msg("RBAC: allowed by ClusterRoleBinding", <<>>)]
            ELSE IF policy = "denyAll"
            THEN [Allowed |-> FALSE, Reason |-> Msg("forbidden", <<>>)]
            ELSE IF policy = "denySilent"
            THEN [Allowed |-> FALSE, Reason |-> EmptyString]
            ELSE IF \E k \in DOMAIN review.Extra : review.Extra[k] = <<"1">>
            THEN [Allowed |-> TRUE, Reason |-> EmptyString]
            ELSE [Allowed |-> FALSE, Reason |-> Msg("forbidden", <<>>)]]

---------------------------------------------------------------------------
(* The state.                                                              *)

VARIABLES
    config,     \* the value the AuthConfigWatcher currently publishes
    replaced,   \* how many times the watcher has replaced it
    policy,     \* the behaviour of the policy service
    req,        \* req[c]: the request call c of Authorize was given
    call        \* call[c]: the position, locals and return value of call c

vars == <<config, replaced, policy, req, call>>

NoReview ==
    [User |-> "", Groups |-> <<>>, Extra |-> EmptyMap,
     ResourceAttributes |-> [Namespace |-> <<>>, Verb |-> "", Group |-> <<>>,
                             Version |-> <<>>, Resource |-> <<>>]]

NoCreate == [called |-> FALSE, failed |-> FALSE, err |-> NilError,
             Status |-> [Allowed |-> FALSE, Reason |-> EmptyString]]

\* A record of the header names a lookup was made with.
Unused == [set |-> FALSE, list |-> <<>>]
Used(list) == [set |-> TRUE, list |-> list]

\* A call at position pc0 that has run nothing yet.  err is the error of
\* generateAccessReview (failed says there is one); created lists the reviews
\* handed to Create; result is what Create answered; ret is what Authorize
\* returned and state the way it ended; the used fields record the header
\* names each lookup was made with; readAt and groupsAt are the numbers of
\* replacements that had happened when GetAuthConfig was called and when the
\* group headers were looked up.
NewCall(pc0) ==
    [pc |-> pc0,
     pathSplit |-> <<>>,
     authConfig |-> NoAuthConfig,
     readAt |-> 0,
     groupsAt |-> 0,
     userExtras |-> EmptyMap,
     users |-> <<>>,
     userGroups |-> <<>>,
     failed |-> FALSE,
     err |-> EmptyString,
     r |-> NoReview,
     created |-> <<>>,
     result |-> NoCreate,
     ret |-> Result(FALSE, EmptyString, NilError),
     state |-> "",
     usedExtraPrefixes |-> Unused,
     usedUserHeaders |-> Unused,
     usedGroupHeaders |-> Unused]

\* One call of Authorize on any request, under any configuration and policy.
Init ==
    /\ config \in AuthConfigs
    /\ replaced = 0
    /\ policy \in Policies
    /\ \E q \in Requests : req = [c \in Calls |-> q]
    /\ call = [c \in Calls |-> IF c = First THEN NewCall("Authorize") ELSE NewCall("idle")]

\* Two concurrent calls of Authorize on requests that reach the policy
\* service, while the watcher replaces the configuration.
InitConcurrent ==
    /\ config = DefaultAuthConfig
    /\ replaced = 0
    /\ policy \in Policies
    /\ req \in [Calls -> ReviewedRequests]
    /\ call = [c \in Calls |-> NewCall("Authorize")]

---------------------------------------------------------------------------
(* Authorize and generateAccessReview, one action per step.                *)

\* Authorize returns ret; state names the way the call ended.
Return(self, ret, state) ==
    call' = [call EXCEPT ![self].pc = "done", ![self].ret = ret, ![self].state = state]

\* generateAccessReview returns err, and Authorize returns it as the reason.
ReturnErr(self, err) ==
    call' = [call EXCEPT ![self].pc = "done", ![self].failed = TRUE, ![self].err = err,
                         ![self].ret = ReturnReviewError(err), ![self].state = "Malformed"]

CheckInfoEndpoint(self) ==
    /\ call[self].pc = "Authorize"
    /\ IF isInfoEndpoint(req[self])
       THEN Return(self, ReturnInfoEndpoint, "Public")
       ELSE call' = [call EXCEPT ![self].pc = "isAuthenticated"]
    /\ UNCHANGED <<config, replaced, policy, req>>

CheckAuthenticated(self) ==
    /\ call[self].pc = "isAuthenticated"
    /\ IF ~isAuthenticated(req[self])
       THEN Return(self, ReturnNotAuthenticated, "Unauthenticated")
       ELSE call' = [call EXCEPT ![self].pc = "generateAccessReview"]
    /\ UNCHANGED <<config, replaced, policy, req>>

SplitPath(self) ==
    /\ call[self].pc = "generateAccessReview"
    /\ IF req[self].URL.nil
       THEN ReturnErr(self, Msg("no URL in http request", <<>>))
       ELSE IF Len(Split(req[self].URL.Path)) # 7
       THEN ReturnErr(self, Msg("unknown api endpoint %s", req[self].URL.Path))
       ELSE call' = [call EXCEPT ![self].pc = "GetAuthConfig",
                                 ![self].pathSplit = Split(req[self].URL.Path)]
    /\ UNCHANGED <<config, replaced, policy, req>>

GetAuthConfig(self) ==
    /\ call[self].pc = "GetAuthConfig"
    /\ call' = [call EXCEPT ![self].pc = "getUserExtras", ![self].authConfig = config,
                         ![self].readAt = replaced]
    /\ UNCHANGED <<config, replaced, policy, req>>

\* The header names each lookup of generateAccessReview is made with.
ExtraPrefixHeadersOf(self) == call[self].authConfig.ExtraPrefixHeaders

UserHeadersOf(self) == call[self].authConfig.UserHeaders

\* The group headers taken from a second call of GetAuthConfig.
GroupHeadersReread(self) == config.GroupHeaders

GroupHeadersOf(self) == call[self].authConfig.GroupHeaders

GetUserExtras(self) ==
    /\ call[self].pc = "getUserExtras"
    /\ \E extras \in getUserExtras(req[self].Header, ExtraPrefixHeadersOf(self)) :
          call' = [call EXCEPT ![self].pc = "group",
                               ![self].userExtras = extras,
                               ![self].usedExtraPrefixes = Used(ExtraPrefixHeadersOf(self))]
    /\ UNCHANGED <<config, replaced, policy, req>>

CheckGroupAndResource(self) ==
    /\ call[self].pc = "group"
    /\ LET group == call[self].pathSplit[3]
           resource == call[self].pathSplit[7]
       IN  IF group # <<uploadTokenGroup>>
           THEN ReturnErr(self, Msg("unknown api group %s", group))
           ELSE IF resource # <<uploadTokenResource>>
           THEN ReturnErr(self, Msg("unknown resource type %s", resource))
           ELSE call' = [call EXCEPT ![self].pc = "users"]
    /\ UNCHANGED <<config, replaced, policy, req>>

MatchUserHeaders(self) ==
    /\ call[self].pc = "users"
    /\ LET m == matchHeaders(req[self].Header, UserHeadersOf(self))
           used == [call EXCEPT ![self].usedUserHeaders = Used(UserHeadersOf(self))]
       IN  IF ~m.ok
           THEN call' = [used EXCEPT ![self].pc = "done", ![self].failed = TRUE,
                                     ![self].err = m.err,
                                     ![self].ret = ReturnReviewError(m.err),
                                     ![self].state = "Malformed"]
           ELSE IF Len(m.value) = 0
           THEN call' = [used EXCEPT ![self].pc = "done", ![self].failed = TRUE,
                                     ![self].err = Msg("no user header found", <<>>),
                                     ![self].ret =
                                         ReturnReviewError(Msg("no user header found", <<>>)),
                                     ![self].state = "Malformed"]
           ELSE call' = [used EXCEPT ![self].pc = "userGroups", ![self].users = m.value]
    /\ UNCHANGED <<config, replaced, policy, req>>

MatchGroupHeaders(self) ==
    /\ call[self].pc = "userGroups"
    /\ LET m == matchHeaders(req[self].Header, GroupHeadersOf(self))
           used == [call EXCEPT ![self].usedGroupHeaders = Used(GroupHeadersOf(self)),
                                ![self].groupsAt = replaced]
       IN  IF ~m.ok
           THEN call' = [used EXCEPT ![self].pc = "done", ![self].failed = TRUE,
                                     ![self].err = m.err,
                                     ![self].ret = ReturnReviewError(m.err),
                                     ![self].state = "Malformed"]
           ELSE call' = [used EXCEPT ![self].pc = "method", ![self].userGroups = m.value]
    /\ UNCHANGED <<config, replaced, policy, req>>

BuildReview(self) ==
    /\ call[self].pc = "method"
    /\ LET method == ToUpper(req[self].Method)
       IN  IF method \notin DOMAIN verbMap
           THEN ReturnErr(self, Msg("unsupported HTTP method %s", method))
           ELSE call' = [call EXCEPT
                    ![self].pc = "Create",
                    ![self].r =
                        [User |-> call[self].users[1],
                         Groups |-> call[self].userGroups,
                         Extra |-> call[self].userExtras,
                         ResourceAttributes |->
                            [Namespace |-> call[self].pathSplit[6],
                             Verb |-> verbMap[method],
                             Group |-> call[self].pathSplit[3],
                             Version |-> call[self].pathSplit[4],
                             Resource |-> call[self].pathSplit[7]]]]
    /\ UNCHANGED <<config, replaced, policy, req>>

CreateReview(self) ==
    /\ call[self].pc = "Create"
    /\ LET result == Create(policy, call[self].r)
       IN  call' = [call EXCEPT
                ![self].pc = "done",
                ![self].created = Append(@, call[self].r),
                ![self].result = [called |-> TRUE, failed |-> result.failed,
                                  err |-> result.err, Status |-> result.Status],
                ![self].ret = IF result.failed
                              THEN ReturnCreateError(result.err)
                              ELSE ReturnStatus(result.Status),
                ![self].state = "Evaluated"]
    /\ UNCHANGED <<config, replaced, policy, req>>

\* The watcher publishes another configuration, as a whole.
ReplaceConfig ==
    /\ replaced < MaxReplacements
    /\ \E c \in AuthConfigs \ {config} : config' = c
    /\ replaced' = replaced + 1
    /\ UNCHANGED <<policy, req, call>>

Step(self) ==
    \/ CheckInfoEndpoint(self)
    \/ CheckAuthenticated(self)
    \/ SplitPath(self)
    \/ GetAuthConfig(self)
    \/ GetUserExtras(self)
    \/ CheckGroupAndResource(self)
    \/ MatchUserHeaders(self)
    \/ MatchGroupHeaders(self)
    \/ BuildReview(self)
    \/ CreateReview(self)

Next == Step(First)

Spec == Init /\ [][Next]_vars

NextConcurrent == (\E self \in Calls : Step(self)) \/ ReplaceConfig

SpecConcurrent == InitConcurrent /\ [][NextConcurrent]_vars

---------------------------------------------------------------------------
(* What the properties say about a request.                                *)

Done(c) == call[c].pc = "done"

Segments(c) == Split(req[c].URL.Path)

\* The path is one of a discovery endpoint: at most 4 segments, or "version"
\* as the fifth.
PublicPath(c) ==
    /\ ~req[c].URL.nil
    /\ \/ Len(Segments(c)) <= 4
       \/ Segments(c)[5] = <<"version">>

\* The request has no verified peer certificate chain.
NoVerifiedChain(c) ==
    \/ req[c].TLS.nil
    \/ req[c].TLS.PeerCertificates = 0
    \/ req[c].TLS.VerifiedChains = 0

Present(c, names) == \E i \in 1..Len(names) : names[i] \in DOMAIN req[c].Header

IsPost(c) == ToUpper(req[c].Method) = <<"P", "O", "S", "T">>

\* The path has the 7 segments of an upload token request.
ResourcePath(c) ==
    /\ ~req[c].URL.nil
    /\ Len(Segments(c)) = 7
    /\ Segments(c)[3] = <<"upload.cdi.kubevirt.io">>
    /\ Segments(c)[7] = <<"uploadtokenrequests">>

\* One of the failures of the Access Query Builder that the specification lists.
ListedFailure(c) ==
    \/ req[c].URL.nil
    \/ Len(Segments(c)) # 7
    \/ Segments(c)[3] # <<"upload.cdi.kubevirt.io">>
    \/ Segments(c)[7] # <<"uploadtokenrequests">>
    \/ ~Present(c, config.UserHeaders)
    \/ ~IsPost(c)

Allow == [allowed |-> TRUE, reason |-> EmptyString, err |-> "nil"]
Deny(reason) == [allowed |-> FALSE, reason |-> reason, err |-> "nil"]

---------------------------------------------------------------------------
(* The properties.                                                         *)

\* C1: for a request whose path has 4 or fewer segments, or "version" as its
\* fifth segment, Authorize ends at its first step and returns (true, "",
\* nil), and no review is ever handed to Create, whatever the TLS state, the
\* headers and the method are.
C1_PublicAllowed ==
    \A c \in Calls :
        PublicPath(c) =>
            /\ call[c].created = <<>>
            /\ ~call[c].result.called
            /\ call[c].pc \in {"idle", "Authorize", "done"}
            /\ Done(c) => call[c].ret = Allow

C1_Witness ==
    \E c \in Calls :
        /\ Done(c)
        /\ Len(Segments(c)) = 7
        /\ Segments(c)[5] = <<"version">>
        /\ req[c].TLS.nil
        /\ ~IsPost(c)
        /\ req[c].Header = EmptyMap
        /\ call[c].ret.allowed

\* C2 as stated: every request without a verified peer certificate chain is
\* denied with "request is not authenticated" and no error, and no review is
\* handed to Create.
C2_Original ==
    \A c \in Calls :
        (Done(c) /\ NoVerifiedChain(c)) =>
            /\ call[c].ret = Deny(Msg("request is not authenticated", <<>>))
            /\ call[c].created = <<>>

\* C2, amended: every request to a path that is not a discovery path and
\* without a verified peer certificate chain is denied with "request is not
\* authenticated" and no error, and no review is ever handed to Create.
C2_UnauthenticatedDenied ==
    \A c \in Calls :
        (NoVerifiedChain(c) /\ ~PublicPath(c)) =>
            /\ call[c].created = <<>>
            /\ ~call[c].result.called
            /\ Done(c) => call[c].ret = Deny(Msg("request is not authenticated", <<>>))

C2_Witness ==
    \E c \in Calls :
        /\ Done(c)
        /\ ResourcePath(c)
        /\ ~req[c].TLS.nil
        /\ req[c].TLS.PeerCertificates > 0
        /\ req[c].TLS.VerifiedChains = 0
        /\ Present(c, config.UserHeaders)
        /\ call[c].state = "Unauthenticated"

\* C3: Authorize returns an error exactly when Create was called and failed;
\* it then returns allowed = false with the error of Create, and in every other
\* outcome the error is nil.
C3_ErrorIffCreateFailed ==
    \A c \in Calls :
        Done(c) =>
            /\ (call[c].ret.err # "nil") <=> (call[c].result.called /\ call[c].result.failed)
            /\ (call[c].result.called /\ call[c].result.failed) =>
                    (~call[c].ret.allowed /\ call[c].ret.err = call[c].result.err)
            /\ call[c].state \in {"Public", "Unauthenticated", "Malformed"} =>
                    call[c].ret.err = "nil"

C3_Witness ==
    \E c \in Calls :
        /\ Done(c)
        /\ call[c].result.called
        /\ call[c].result.failed
        /\ call[c].r.Extra # EmptyMap
        /\ call[c].ret.err = "transport fault"

\* C4: when Create succeeds, Authorize returns (true, "", nil) if the status
\* is allowed, whatever its reason, and (false, the reason of the status, nil)
\* if it is not.
C4_StatusInterpreted ==
    \A c \in Calls :
        (Done(c) /\ call[c].result.called /\ ~call[c].result.failed) =>
            /\ call[c].ret.allowed = call[c].result.Status.Allowed
            /\ call[c].result.Status.Allowed => call[c].ret = Allow
            /\ ~call[c].result.Status.Allowed =>
                    call[c].ret = Deny(call[c].result.Status.Reason)

C4_Witness ==
    \E c \in Calls :
        /\ Done(c)
        /\ call[c].result.called
        /\ call[c].result.Status.Allowed
        /\ call[c].result.Status.Reason # EmptyString
        /\ call[c].ret = Allow

\* C5: when generateAccessReview fails for an authenticated request to a path
\* that is not a discovery path, as it does for each of the listed failures,
\* Authorize returns allowed = false, the non-empty message of the failure as
\* the reason and no error, and no review is handed to Create.
C5_MalformedDenied ==
    \A c \in Calls :
        (Done(c) /\ ~PublicPath(c) /\ ~NoVerifiedChain(c)) =>
            /\ ListedFailure(c) => call[c].failed
            /\ call[c].failed =>
                /\ call[c].ret = Deny(call[c].err)
                /\ call[c].err.fmt # ""
                /\ call[c].created = <<>>
                /\ ~call[c].result.called
                /\ call[c].r = NoReview

C5_Witness ==
    \E c \in Calls :
        /\ Done(c)
        /\ ResourcePath(c)
        /\ ~NoVerifiedChain(c)
        /\ call[c].users # <<>>
        /\ call[c].userGroups # <<>>
        /\ call[c].err.fmt = "unsupported HTTP method %s"
        /\ call[c].ret = Deny(call[c].err)

\* C6 as stated: every request whose method is not POST after upper-casing
\* is answered allowed = false with no error.
C6_Original ==
    \A c \in Calls :
        (Done(c) /\ ~IsPost(c)) => (~call[c].ret.allowed /\ call[c].ret.err = "nil")

\* C6, amended: every request to a path that is not a discovery path whose
\* method is not POST after upper-casing is answered allowed = false with no
\* error.
C6_UnsupportedMethodDenied ==
    \A c \in Calls :
        (Done(c) /\ ~IsPost(c) /\ ~PublicPath(c)) =>
            (~call[c].ret.allowed /\ call[c].ret.err = "nil")

C6_Witness ==
    \E c \in Calls :
        /\ Done(c)
        /\ req[c].Method = <<"G", "E", "T">>
        /\ ResourcePath(c)
        /\ ~NoVerifiedChain(c)
        /\ Present(c, config.UserHeaders)
        /\ Present(c, config.GroupHeaders)
        /\ policy = "allowAll"
        /\ ~call[c].ret.allowed

\* The request is authenticated and well formed, and carries a user header
\* with a value but none of the configured group headers.
UserButNoGroup(c) ==
    /\ ~NoVerifiedChain(c)
    /\ ResourcePath(c)
    /\ IsPost(c)
    /\ Present(c, config.UserHeaders)
    /\ call[c].users # <<>>
    /\ ~Present(c, config.GroupHeaders)

\* C7 as stated: an authenticated, well-formed request with a user header
\* and no group header has a review with empty groups handed to Create.
C7_Original ==
    \A c \in Calls :
        (Done(c) /\ UserButNoGroup(c)) =>
            /\ Len(call[c].created) = 1
            /\ call[c].created[1].Groups = <<>>

\* C7, amended: when none of the configured group headers is present, an
\* authenticated, otherwise well-formed request with a user header is denied
\* with the reason "one of these headers required for authorization: " and
\* the configured group header names, with no error, and no review is handed
\* to Create.
C7_MissingGroupDenied ==
    \A c \in Calls :
        (Done(c) /\ UserButNoGroup(c)) =>
            /\ call[c].ret =
                 Deny(Msg("one of these headers required for authorization: %+v",
                          FormatList(config.GroupHeaders)))
            /\ call[c].created = <<>>
            /\ ~call[c].result.called

C7_Witness ==
    \E c \in Calls :
        /\ Done(c)
        /\ UserButNoGroup(c)
        /\ call[c].state = "Malformed"
        /\ call[c].usedGroupHeaders.set

\* C8 as stated: a request with an empty path is classified as protected, so
\* Authorize does not allow it through the check of the discovery endpoints.
C8_Original ==
    \A c \in Calls :
        (Done(c) /\ ~req[c].URL.nil /\ req[c].URL.Path = <<>>) =>
            call[c].state # "Public"

\* C8, amended: the classifier fails closed only for a request that has no
\* URL, which is never allowed through the check of the discovery endpoints;
\* an empty path splits into one segment and is allowed through that check,
\* and a path of 5 or more segments whose fifth is not "version" is not.
C8_ClassifierOnOddPaths ==
    \A c \in Calls :
        Done(c) =>
            /\ req[c].URL.nil => (call[c].state # "Public" /\ ~call[c].ret.allowed)
            /\ (~req[c].URL.nil /\ req[c].URL.Path = <<>>) =>
                    (call[c].state = "Public" /\ call[c].ret = Allow)
            /\ (~req[c].URL.nil /\ Len(Segments(c)) > 4 /\ Segments(c)[5] # <<"version">>) =>
                    call[c].state # "Public"

C8_Witness ==
    \E c \in Calls :
        /\ Done(c)
        /\ ~req[c].URL.nil
        /\ req[c].URL.Path = <<>>
        /\ req[c].TLS.nil
        /\ call[c].state = "Public"
        /\ call[c].ret.allowed

\* C9: whatever the interleaving of the calls with the replacements of the
\* configuration, the prefixes, the user headers and the group headers that a
\* call has looked up so far are those of one and the same configuration.
C9_OneSnapshot ==
    \A c \in Calls :
        \E s \in AuthConfigs :
            /\ call[c].usedExtraPrefixes.set => call[c].usedExtraPrefixes.list = s.ExtraPrefixHeaders
            /\ call[c].usedUserHeaders.set => call[c].usedUserHeaders.list = s.UserHeaders
            /\ call[c].usedGroupHeaders.set => call[c].usedGroupHeaders.list = s.GroupHeaders

\* The configuration was replaced between the call's read of it and its
\* lookup of the group headers, the call ran to its end with the names it had
\* read, and the configuration published at its end is another one.
C9_Witness ==
    \E c \in Calls :
        /\ Done(c)
        /\ call[c].state = "Evaluated"
        /\ call[c].groupsAt > call[c].readAt
        /\ call[c].usedGroupHeaders.list # config.GroupHeaders

\* C10: two calls with the same request, under a configuration that was never
\* replaced and the same policy service, hand the same reviews to Create and
\* return the same result.
C10_Deterministic ==
    \A c, d \in Calls :
        (Done(c) /\ Done(d) /\ req[c] = req[d] /\ replaced = 0) =>
            /\ call[c].created = call[d].created
            /\ call[c].ret = call[d].ret

===========================================================================
